---- MODULE Spec2Model ----
(***************************************************************************)
(* A model of barrelLab's acoustic core:                                   *)
(*   - PhysicsEngine.compute_impedance_curve  (src/backend/physics.py)     *)
(*   - gpu_accelerated_impedance              (src/backend/gpu/...)        *)
(*   - the "Auto-Optimize Bore" handler       (src/ai_assistant/...)       *)
(*                                                                         *)
(* Units.  x positions are whole millimetres, radii are tenths of a        *)
(* millimetre (the default profile 15.0/14.8/14.8/14.6 mm is               *)
(* 150/148/148/146), frequencies are whole hertz.                          *)
(*                                                                         *)
(* Floating point.  The complex values of the transfer-matrix recursion    *)
(* are abstracted to "finite" / "non-finite" (inf or nan).  IEEE           *)
(* arithmetic propagates non-finiteness through + and *, so the tag of     *)
(* every intermediate value is computed exactly as the code computes the   *)
(* value.  The finite magnitudes |Z_in| themselves are left uninterpreted: *)
(* they are drawn from PhysicsArrays, and within an optimizer run what an  *)
(* input gave is memoised, so that the engine stays a function of its      *)
(* inputs.                                                                 *)
(***************************************************************************)
EXTENDS Integers, Sequences, FiniteSets, TLC

VARIABLES
    e_pc,      \* engine call: position in compute_impedance_curve
    e_in,      \* engine call: its arguments and the backend situation
    e_freqs,   \* engine call: freqs (line 62)
    e_st,      \* engine call: per-frequency state vector (P, U), as finiteness tags
    e_i,       \* engine call: loop variable i of line 112 (1-based), 0 before the loop
    e_out,     \* engine call: what the caller receives
    g_pc,      \* gpu_accelerated_impedance: position
    g_in,      \* gpu_accelerated_impedance: arguments and backend situation
    g_out,     \* gpu_accelerated_impedance: what the caller receives
    heap,      \* Python list objects holding profiles, by object id
    session,   \* st.session_state: bore_profile (an object id), target_freq
    o_pc,      \* optimizer handler: position in render()
    o_loc,     \* optimizer handler: its local variables
    zcache,    \* what the objective gave so far in this run, per engine input
    p_pc,      \* find_peaks: position
    p_in,      \* find_peaks: its arguments
    p_peaks,   \* find_peaks: the sample indices (1-based) still held as peaks
    p_out,     \* find_peaks: what the caller receives
    edits,     \* editor submissions and aging applications so far
    material   \* st.session_state.material

vars == <<e_pc, e_in, e_freqs, e_st, e_i, e_out, g_pc, g_in, g_out,
          heap, session, o_pc, o_loc, zcache, p_pc, p_in, p_peaks, p_out,
          edits, material>>

engineVars == <<e_pc, e_in, e_freqs, e_st, e_i, e_out>>
gpuVars == <<g_pc, g_in, g_out>>
optVars == <<heap, session, o_pc, o_loc, zcache>>
peakVars == <<p_pc, p_in, p_peaks, p_out>>
appVars == <<edits, material>>

-----------------------------------------------------------------------------
(* Bounds of the model *)

\* Magnitude levels a finite |Z_in| sample may take: 1..MaxLevel.
MaxLevel == 2

\* Grids up to this length get every magnitude array over the levels; longer
\* grids get the three shapes of ShapeArrays.
MaxFullGrid == 4

\* The "Max Iterations" slider value used by the optimizer runs of the model.
MaxIterBound == 2

\* Frequencies below this one have their integer square root tabulated.
RootTableSize == 600

\* Longest lengths/radii vectors handed to gpu_accelerated_impedance.
MaxVec == 2

\* Largest entry of those vectors.
MaxEntry == 2

\* Longest spectrum handed to find_peaks with any magnitudes of PeakMags.
MaxPeakLen == 7

\* Length of the two-level spectra handed to find_peaks: long enough for two
\* peaks that are a full separation window apart.
LongPeakLen == 13

\* Editor submissions and aging applications in one behaviour of the
\* application.
MaxEdits == 2

\* Most control points a profile of the model grows to.
MaxPoints == 5

-----------------------------------------------------------------------------
(* Arithmetic helpers *)

Abs(a) == IF a < 0 THEN -a ELSE a

Max0(a) == IF a < 0 THEN 0 ELSE a

\* ceil(a / b) for b > 0
CeilDiv(a, b) == (a + b - 1) \div b

\* floor(sqrt(f)) for f >= 0
RECURSIVE ISqrtFrom(_, _)
ISqrtFrom(s, f) == IF (s + 1) * (s + 1) > f THEN s ELSE ISqrtFrom(s + 1, f)

\* The roots of 0..RootTableSize-1 are computed once.
RootTable == SubSeq([k \in 1..RootTableSize |-> ISqrtFrom(0, k - 1)], 1, RootTableSize)

ISqrt(f) == IF f < RootTableSize THEN RootTable[f + 1] ELSE ISqrtFrom(0, f)

\* The sequence s with every element evaluated (the same value as s).
Materialize(s) == SubSeq(s, 1, Len(s))

\* A grid that also holds the upper bound when the step divides the window.
ArangeLenInclusive(lo, hi, st) ==
    IF st > 0 THEN Max0((hi - lo) \div st + 1) ELSE Max0((lo - hi) \div (-st) + 1)

\* numpy.arange(lo, hi, st) for st # 0: ceil((hi - lo) / st) samples, none when
\* that is not positive.
ArangeLen(lo, hi, st) ==
    IF st > 0 THEN Max0(CeilDiv(hi - lo, st)) ELSE Max0(CeilDiv(lo - hi, -st))

Arange(lo, hi, st) ==
    Materialize([k \in 1..ArangeLen(lo, hi, st) |-> lo + (k - 1) * st])

-----------------------------------------------------------------------------
(* Profiles: sequences of <<x_mm, radius_tenth_mm>> *)

PX(p) == p[1]
PR(p) == p[2]

\* app.py's default profile, also bore_editor.py's "Reset to Standard 66mm".
DefaultProfile == << <<0, 150>>, <<20, 148>>, <<40, 148>>, <<66, 146>> >>

-----------------------------------------------------------------------------
(* PhysicsEngine: finiteness of the values of compute_impedance_curve *)

\* The quotient 710 / 3e-5: cosh and sinh of gamma*length overflow float64 when
\* |alpha * length| = 3e-5 * sqrt(f) * |length / r_avg| exceeds about 710.
CoshLimit == 23666666

\* PhysicsEngine.__init__: self.use_gpu = use_gpu and HAS_GPU
UseGpu(in) == in.use_gpu /\ in.has_gpu

\* Lines 84-103: z0_exit = rho*c / (pi * r_exit^2) is inf when r_exit = 0, and
\* then Z_L = z0_exit * (...) is non-finite.  TRUE when Z_L is finite.
LoadFinite(profile) == PR(profile[Len(profile)]) # 0

\* Lines 113-128 for the segment between points i-1 and i (1-based) at
\* frequency f.  TRUE when Z_c, cosh(gamma*length) and sinh(gamma*length) are
\* all finite:  r_avg = 0 makes area 0, Z_c inf and alpha inf or nan;
\* f < 0 makes sqrt(f) nan; a large alpha*length overflows cosh and sinh.
\* r_avg is (r[i] + r[i-1]) / 2, so length / r_avg = 20 * dx_mm / (r[i] + r[i-1]).
SegmentFinite(profile, i, f) ==
    LET dx   == PX(profile[i]) - PX(profile[i - 1])
        rsum == PR(profile[i]) + PR(profile[i - 1])
    IN  /\ rsum # 0
        /\ f >= 0
        /\ (ISqrt(f) * Abs(dx) * 20) \div Abs(rsum) <= CoshLimit

\* Lines 108-109: P = Z_L, U = ones.
LoadState(profile, freqs) ==
    Materialize([k \in 1..Len(freqs) |-> [P |-> LoadFinite(profile), U |-> TRUE]])

\* A transfer that starts every segment from a fresh finite state instead of
\* the state the previous segment produced.
SegmentTransferFresh(st, profile, i, freqs) ==
    Materialize([k \in 1..Len(freqs) |->
        [P |-> SegmentFinite(profile, i, freqs[k]),
         U |-> SegmentFinite(profile, i, freqs[k])]])

\* Lines 130-134: P = P_prev*cosh + U_prev*Z_c*sinh, U = P_prev*(sinh/Z_c) +
\* U_prev*cosh.  A sum of products is finite only if every operand is.
SegmentTransfer(st, profile, i, freqs) ==
    Materialize([k \in 1..Len(freqs) |->
        LET fin == st[k].P /\ st[k].U /\ SegmentFinite(profile, i, freqs[k])
        IN  [P |-> fin, U |-> fin]])

\* Lines 112-134 as a fold: segments (n-1,n), (n-2,n-1), ..., (1,2).
RECURSIVE FoldSegments(_, _, _, _)
FoldSegments(st, profile, i, freqs) ==
    IF i <= 1 THEN st
    ELSE FoldSegments(SegmentTransfer(st, profile, i, freqs), profile, i - 1, freqs)

\* Three magnitude shapes for a long grid: rising to the upper edge, falling
\* from the lower edge, and one interior peak.
ShapeArrays(n) ==
    { Materialize([k \in 1..n |-> k]),
      Materialize([k \in 1..n |-> n + 1 - k]),
      Materialize([k \in 1..n |-> IF 2 * k <= n THEN k ELSE n + 1 - k]) }

\* The finite magnitudes the recursion may produce over a grid of n samples.
PhysicsArrays(n) ==
    IF n <= MaxFullGrid THEN [1..n -> 1..MaxLevel] ELSE ShapeArrays(n)

\* Lines 137-142: Z_in = P / U and abs(Z_in), with lv the finite magnitudes.
Magnitudes(st, lv) ==
    Materialize([k \in 1..Len(st) |->
        IF st[k].P /\ st[k].U THEN [fin |-> TRUE, mag |-> lv[k]]
                              ELSE [fin |-> FALSE, mag |-> 0]])

AllFinite(Z) == \A k \in 1..Len(Z) : Z[k].fin

NoResult == [status |-> "none", error |-> "none", freqs |-> <<>>, Z |-> <<>>]
Raised(err) == [status |-> "raised", error |-> err, freqs |-> <<>>, Z |-> <<>>]
Returned(freqs, Z) == [status |-> "returned", error |-> "none", freqs |-> freqs, Z |-> Z]

-----------------------------------------------------------------------------
(* PhysicsEngine.compute_impedance_curve, step by step *)

EngineProfiles ==
    { DefaultProfile,
      << <<0, 150>> >>,                              \* a single point
      << <<0, 150>>, <<66, 0>> >>,                   \* zero radius at the open end
      << <<0, 150>>, <<20, -150>>, <<66, 146>> >>,   \* a negative radius
      << <<20, 150>>, <<0, 148>> >>,                 \* x decreasing
      << <<0, 150>>, <<0, 148>> >>,                  \* x repeated
      << <<0, 1>>, <<1000000, 1>> >>,                \* valid: 0.1 mm bore, 1 km long
      << >> }                                        \* no point at all

EngineRanges ==
    { <<100, 104>>, <<100, 103>>, <<104, 100>>, <<100, 100>>, <<-2, 2>>, <<0, 3>> }

EngineSteps == { 1, 2, 0, -1 }

\* Where the accelerated backend, when it is the one in use, raises.
GpuFaults == { "none", "arange", "segment" }

EngineInputs ==
    [ profile : EngineProfiles, range : EngineRanges, step : EngineSteps,
      use_gpu : BOOLEAN, has_gpu : BOOLEAN, gpu_fault : GpuFaults ]

NoEngineInput ==
    [ profile |-> <<>>, range |-> <<0, 0>>, step |-> 0,
      use_gpu |-> FALSE, has_gpu |-> FALSE, gpu_fault |-> "none" ]

\* Line 62: freqs = xp.arange(freq_range[0], freq_range[1], freq_step).
\* No argument is validated first.  arange raises ZeroDivisionError for a zero
\* step; an exception of the accelerated backend propagates (there is no
\* try/except in the method).
E_Grid ==
    /\ e_pc = "start"
    /\ IF UseGpu(e_in) /\ e_in.gpu_fault = "arange"
       THEN /\ e_pc' = "raised"
            /\ e_out' = Raised("BackendError")
            /\ UNCHANGED e_freqs
       ELSE IF e_in.step = 0
       THEN /\ e_pc' = "raised"
            /\ e_out' = Raised("ZeroDivisionError")
            /\ UNCHANGED e_freqs
       ELSE /\ e_pc' = "geometry"
            /\ e_freqs' = Arange(e_in.range[1], e_in.range[2], e_in.step)
            /\ UNCHANGED e_out
    /\ UNCHANGED <<e_in, e_st, e_i>>
    /\ UNCHANGED <<gpuVars, optVars, peakVars, appVars>>

\* Lines 80-109: x_pts, r_pts, r_exit = r_pts[-1] (IndexError on an empty
\* profile), Z_L, P = Z_L, U = 1.
E_Load ==
    /\ e_pc = "geometry"
    /\ IF Len(e_in.profile) = 0
       THEN /\ e_pc' = "raised"
            /\ e_out' = Raised("IndexError")
            /\ UNCHANGED <<e_st, e_i>>
       ELSE /\ e_pc' = "loop"
            /\ e_st' = LoadState(e_in.profile, e_freqs)
            /\ e_i' = Len(e_in.profile)
            /\ UNCHANGED e_out
    /\ UNCHANGED <<e_in, e_freqs>>
    /\ UNCHANGED <<gpuVars, optVars, peakVars, appVars>>

\* Lines 112-134: one iteration of "for i in range(len(x_pts) - 1, 0, -1)".
E_Segment ==
    /\ e_pc = "loop"
    /\ e_i > 1
    /\ IF UseGpu(e_in) /\ e_in.gpu_fault = "segment"
       THEN /\ e_pc' = "raised"
            /\ e_out' = Raised("BackendError")
            /\ UNCHANGED <<e_st, e_i>>
       ELSE /\ e_st' = SegmentTransfer(e_st, e_in.profile, e_i, e_freqs)
            /\ e_i' = e_i - 1
            /\ UNCHANGED <<e_pc, e_out>>
    /\ UNCHANGED <<e_in, e_freqs>>
    /\ UNCHANGED <<gpuVars, optVars, peakVars, appVars>>

\* Lines 137-142: Z_in = P / U; return freqs, abs(Z_in).  Nothing looks at the
\* values before they are returned.
E_Return ==
    /\ e_pc = "loop"
    /\ e_i <= 1
    /\ \E lv \in PhysicsArrays(Len(e_freqs)) :
          e_out' = Returned(e_freqs, Magnitudes(e_st, lv))
    /\ e_pc' = "returned"
    /\ UNCHANGED <<e_in, e_freqs, e_st, e_i>>
    /\ UNCHANGED <<gpuVars, optVars, peakVars, appVars>>

-----------------------------------------------------------------------------
(* gpu_compute.gpu_accelerated_impedance *)

\* lengths * radii, elementwise (both backends), for vectors of one length.
ElementwiseProduct(a, b) == [k \in 1..Len(a) |-> a[k] * b[k]]

\* cp.sum / np.sum
RECURSIVE SumSeq(_)
SumSeq(s) == IF Len(s) = 0 THEN 0 ELSE s[1] + SumSeq(Tail(s))

VecsOfLen(n) == [1..n -> 1..MaxEntry]

\* Where the GPU computation raises, when it is attempted: building the
\* arrays and their product (line 30), cp.sum (line 31), result.get() (line 33).
GpuCallFaults == { "none", "product", "sum", "get" }

GpuInputs ==
    UNION { [ lengths : VecsOfLen(n), radii : VecsOfLen(n),
              has_gpu : BOOLEAN, fault : GpuCallFaults ] : n \in 0..MaxVec }

NoGpuInput == [ lengths |-> <<>>, radii |-> <<>>, has_gpu |-> FALSE, fault |-> "none" ]

NoGpuResult == [ status |-> "none", value |-> 0, is_none |-> FALSE, path |-> "none" ]

\* The other handler one could write: the exception goes on to the caller.
AfterGpuErrorReraise == "raised"

\* Lines 34-37: "except Exception as e: logger.error(...); pass" -- control
\* falls through to the CPU computation below the if.
AfterGpuError == "cpu"

\* Line 27: if HAS_GPU and cp
G_Call ==
    /\ g_pc = "start"
    /\ g_pc' = IF g_in.has_gpu THEN "gpu" ELSE "cpu"
    /\ UNCHANGED <<g_in, g_out>>
    /\ UNCHANGED <<engineVars, optVars, peakVars, appVars>>

\* Lines 28-37: the try block and its handler.
G_Gpu ==
    /\ g_pc = "gpu"
    /\ IF g_in.fault = "none"
       THEN /\ g_pc' = "returned"
            /\ g_out' = [ status |-> "returned",
                          value |-> SumSeq(ElementwiseProduct(g_in.lengths, g_in.radii)),
                          is_none |-> FALSE, path |-> "gpu" ]
       ELSE /\ g_pc' = AfterGpuError
            /\ g_out' = IF AfterGpuError = "cpu" THEN g_out
                        ELSE [ status |-> "raised", value |-> 0,
                               is_none |-> FALSE, path |-> "gpu" ]
    /\ UNCHANGED g_in
    /\ UNCHANGED <<engineVars, optVars, peakVars, appVars>>

\* Lines 39-42: the CPU computation, from the arguments.
G_Cpu ==
    /\ g_pc = "cpu"
    /\ g_pc' = "returned"
    /\ g_out' = [ status |-> "returned",
                  value |-> SumSeq(ElementwiseProduct(g_in.lengths, g_in.radii)),
                  is_none |-> FALSE,
                  path |-> IF g_in.has_gpu THEN "cpu_fallback" ELSE "cpu" ]
    /\ UNCHANGED g_in
    /\ UNCHANGED <<engineVars, optVars, peakVars, appVars>>

-----------------------------------------------------------------------------
(* The engine as one call, as the optimizer's objective makes it *)

\* compute_impedance_curve on the CPU backend (ai_designer.py constructs
\* PhysicsEngine(use_gpu=False)): every answer the call may give, one per
\* array of finite magnitudes.
ImpedanceCurves(profile, fmin, fmax, step) ==
    IF step = 0 THEN { Raised("ZeroDivisionError") }
    ELSE IF Len(profile) = 0 THEN { Raised("IndexError") }
    ELSE LET freqs == Arange(fmin, fmax, step)
             st    == FoldSegments(LoadState(profile, freqs), profile, Len(profile), freqs)
         IN  { Returned(freqs, Magnitudes(st, lv)) : lv \in PhysicsArrays(Len(freqs)) }

-----------------------------------------------------------------------------
(* Python lists on the heap *)

\* Plain assignment instead of list.copy(): the same object under a second
\* name (candidate = current_profile).
ListCopyAlias(h, ref) == [heap |-> h, ref |-> ref]

\* list.copy(): a new list object with the same items.
ListCopy(h, ref) == [heap |-> Append(h, h[ref]), ref |-> Len(h) + 1]

\* lst[idx] = v, in place (idx is 1-based here).
ListSetItem(h, ref, idx, v) == [h EXCEPT ![ref][idx] = v]

-----------------------------------------------------------------------------
(* ai_designer.render: the "Auto-Optimize Bore" handler *)

\* A narrower choice of fixed points: only the first.
FixedIndicesFirstOnly(n) == { 1 }

\* Line 54: fixed_indices = [0, len(current_profile) - 1], 1-based here.
FixedIndices(n) == { 1, n }

\* Line 55: optim_indices, ascending.
RECURSIVE IndicesFrom(_, _, _)
IndicesFrom(i, n, fixed) ==
    IF i > n THEN <<>>
    ELSE IF i \in fixed THEN IndicesFrom(i + 1, n, fixed)
    ELSE <<i>> \o IndicesFrom(i + 1, n, fixed)

OptimIndices(n) == IndicesFrom(1, n, FixedIndices(n))

\* Line 57: initial_radii
InitialRadii(profile, idxs) == [i \in 1..Len(idxs) |-> PR(profile[idxs[i]])]

\* Lines 67-68 and 102-103: for i, idx in enumerate(optim_indices):
\*     lst[idx] = (lst[idx][0], radii[i])
RECURSIVE Substitute(_, _, _, _, _)
Substitute(h, ref, idxs, radii, i) ==
    IF i > Len(idxs) THEN h
    ELSE Substitute(ListSetItem(h, ref, idxs[i], <<PX(h[ref][idxs[i]]), radii[i]>>),
                    ref, idxs, radii, i + 1)

\* Line 77, numpy.argmax(Z): the first index of the largest value; with non-finite
\* entries, an index of one of them (nan compares as the maximum; which of
\* several non-finite entries wins depends on their kind).  Empty: no index.
\* The first index of the largest magnitude among Z[lo..hi] (by halves, so
\* that the evaluation stays shallow on a long grid).
RECURSIVE FirstMaxIn(_, _, _)
FirstMaxIn(Z, lo, hi) ==
    IF lo = hi THEN lo
    ELSE LET mid == (lo + hi) \div 2
             l   == FirstMaxIn(Z, lo, mid)
             r   == FirstMaxIn(Z, mid + 1, hi)
         IN  IF Z[r].mag > Z[l].mag THEN r ELSE l

FirstMax(Z) == FirstMaxIn(Z, 1, Len(Z))

ArgmaxChoices(Z) ==
    IF Len(Z) = 0 THEN {}
    ELSE IF ~AllFinite(Z) THEN { k \in 1..Len(Z) : ~Z[k].fin }
    ELSE { FirstMax(Z) }

\* The signed difference, without the square of line 80.
SquaredErrorUnsquared(f_peak, target) == f_peak - target

\* Line 80: error = (f_peak - target_f)**2
SquaredError(f_peak, target) == (f_peak - target) * (f_peak - target)

\* Lines 72-73: f_min = target_f * 0.8, f_max = target_f * 1.2 (targets of the
\* model are multiples of 5, so both are whole).
WindowMin(target) == (4 * target) \div 5
WindowMax(target) == (6 * target) \div 5

\* The engine input of one objective evaluation.
CurveKey(profile, target) == <<profile, WindowMin(target), WindowMax(target), 1>>

\* scipy's Nelder-Mead keeps its simplex sorted and only ever replaces a
\* vertex by a better one, so the best vertex changes only to a strictly lower
\* objective value.
BestOf(best, cand) == IF cand.f < best.f THEN cand ELSE best

\* The target frequencies typed into "Target Frequency (Hz)" (no minimum is
\* set on the input); 440 is app.py's default.
TargetInputs == { 440, 5, 0 }

\* Radii (tenths of a millimetre) the minimizer may propose at a free point.
\* Nelder-Mead is unconstrained (line 86-91 pass no bounds): its reflection and
\* expansion points may leave the positive range.
OptRadii == { 148, -20 }

Candidates(nfree) == [1..nfree -> OptRadii]

NoEval == [kind |-> "none", peak_idx |-> 0, f_peak |-> 0, value |-> 0]

NoVertex == [x |-> <<>>, f |-> 0, f_peak |-> 0]

NoLocals ==
    [ target_f |-> 0, max_iter |-> 0, current_profile |-> 0, input |-> <<>>,
      optim_indices |-> <<>>, initial_radii |-> <<>>, candidate |-> 0,
      x0 |-> NoVertex, best |-> NoVertex, simplex_left |-> 0, iterations |-> 0,
      message |-> "none", last |-> NoEval, new_profile |-> 0 ]

\* Lines 77-81 on the engine's answer: argmax, f_peak, error; or the
\* exception that ends the evaluation (the engine's own, or numpy's ValueError
\* for the argmax of an empty array).
EvalsOf(curve, target) ==
    IF curve.status = "raised" THEN { [NoEval EXCEPT !.kind = curve.error] }
    ELSE IF ArgmaxChoices(curve.Z) = {} THEN { [NoEval EXCEPT !.kind = "ValueError"] }
    ELSE { [kind |-> "value", peak_idx |-> idx, f_peak |-> curve.freqs[idx],
            value |-> SquaredError(curve.freqs[idx], target)]
           : idx \in ArgmaxChoices(curve.Z) }

\* Lines 64-81: objective_function(radii) on heap h.  The candidate of the
\* previous evaluation is garbage by now: only the session's list (object 1)
\* is kept.  Every possible outcome: the heap with the new candidate, the
\* value returned or the exception, and the memo with it.  The engine is
\* deterministic, so an input evaluated before gives what it gave then.
ObjectiveOutcomes(h, cur, idxs, radii, target, cache) ==
    LET cp  == ListCopy(<<h[1]>>, cur)
        h2  == Substitute(cp.heap, cp.ref, idxs, radii, 1)
        key == CurveKey(h2[cp.ref], target)
        evs == IF key \in DOMAIN cache THEN { cache[key] }
               ELSE UNION { EvalsOf(curve, target)
                            : curve \in ImpedanceCurves(h2[cp.ref], WindowMin(target),
                                                        WindowMax(target), 1) }
    IN  { [heap |-> h2, candidate |-> cp.ref, cache |-> (key :> ev) @@ cache,
           eval |-> ev] : ev \in evs }

VertexOf(radii, ev) == [x |-> radii, f |-> ev.value, f_peak |-> ev.f_peak]

\* Lines 30-31: target_f = st.number_input(...); session_state.target_freq = target_f
O_SetTarget(t) ==
    /\ o_pc = "idle"
    /\ session' = [session EXCEPT !.target_freq = t]
    /\ UNCHANGED <<heap, o_pc, o_loc, zcache>>
    /\ UNCHANGED <<engineVars, gpuVars, peakVars, appVars>>

\* Lines 36-62: the button is pressed.  With fewer than 3 points the handler
\* warns and returns.  Object ids are renumbered so that the session's list is
\* object 1; the memo of evaluations is per run.
O_Click ==
    /\ o_pc = "idle"
    /\ LET cur == heap[session.bore_profile]
           n   == Len(cur)
       IN  IF n < 3
           THEN UNCHANGED <<heap, session, o_pc, o_loc, zcache>>
           ELSE /\ heap' = <<cur>>
                /\ session' = [session EXCEPT !.bore_profile = 1]
                /\ o_loc' = [NoLocals EXCEPT
                                !.target_f = session.target_freq,
                                !.max_iter = MaxIterBound,
                                !.current_profile = 1,
                                !.input = cur,
                                !.optim_indices = OptimIndices(n),
                                !.initial_radii = InitialRadii(cur, OptimIndices(n)),
                                !.simplex_left = Len(OptimIndices(n))]
                /\ o_pc' = "x0"
                /\ zcache' = << >>
    /\ UNCHANGED <<engineVars, gpuVars, peakVars, appVars>>

\* minimize(): the objective at x0 = initial_radii, the first vertex.
O_EvalX0 ==
    /\ o_pc = "x0"
    /\ \E out \in ObjectiveOutcomes(heap, o_loc.current_profile, o_loc.optim_indices,
                                    o_loc.initial_radii, o_loc.target_f, zcache) :
          /\ heap' = out.heap
          /\ zcache' = out.cache
          /\ IF out.eval.kind = "value"
             THEN /\ o_pc' = "simplex"
                  /\ o_loc' = [o_loc EXCEPT
                                  !.candidate = out.candidate, !.last = out.eval,
                                  !.x0 = VertexOf(o_loc.initial_radii, out.eval),
                                  !.best = VertexOf(o_loc.initial_radii, out.eval)]
             ELSE /\ o_pc' = "raised"
                  /\ o_loc' = [o_loc EXCEPT
                                  !.candidate = out.candidate, !.last = out.eval]
    /\ UNCHANGED session
    /\ UNCHANGED <<engineVars, gpuVars, peakVars, appVars>>

\* One more objective evaluation of the minimizer at radii c.
EvalVertex(c, next_pc, iters, left) ==
    \E out \in ObjectiveOutcomes(heap, o_loc.current_profile, o_loc.optim_indices,
                                 c, o_loc.target_f, zcache) :
       /\ heap' = out.heap
       /\ zcache' = out.cache
       /\ IF out.eval.kind = "value"
          THEN /\ o_pc' = next_pc
               /\ o_loc' = [o_loc EXCEPT
                               !.candidate = out.candidate, !.last = out.eval,
                               !.best = BestOf(o_loc.best, VertexOf(c, out.eval)),
                               !.iterations = iters, !.simplex_left = left]
          ELSE /\ o_pc' = "raised"
               /\ o_loc' = [o_loc EXCEPT
                               !.candidate = out.candidate, !.last = out.eval]

\* minimize(): the other vertices of the initial simplex, one per free radius.
O_EvalSimplex ==
    /\ o_pc = "simplex"
    /\ \E c \in Candidates(Len(o_loc.optim_indices)) :
          EvalVertex(c, IF o_loc.simplex_left = 1 THEN "iterate" ELSE "simplex",
                     o_loc.iterations, o_loc.simplex_left - 1)
    /\ UNCHANGED session
    /\ UNCHANGED <<engineVars, gpuVars, peakVars, appVars>>

\* minimize(): one iteration (a reflection, expansion, contraction or shrink
\* point is evaluated) while iterations < maxiter.
O_Iterate ==
    /\ o_pc = "iterate"
    /\ o_loc.iterations < o_loc.max_iter
    /\ \E c \in Candidates(Len(o_loc.optim_indices)) :
          EvalVertex(c, "iterate", o_loc.iterations + 1, o_loc.simplex_left)
    /\ UNCHANGED session
    /\ UNCHANGED <<engineVars, gpuVars, peakVars, appVars>>

\* minimize(): the simplex met xatol/fatol before the budget ran out.
O_Converged ==
    /\ o_pc = "iterate"
    /\ o_loc.iterations < o_loc.max_iter
    /\ o_loc' = [o_loc EXCEPT !.message = "Optimization terminated successfully."]
    /\ o_pc' = "report"
    /\ UNCHANGED <<heap, session, zcache>>
    /\ UNCHANGED <<engineVars, gpuVars, peakVars, appVars>>

\* minimize(): iterations reached maxiter (the option of line 90).
O_Budget ==
    /\ o_pc = "iterate"
    /\ o_loc.iterations >= o_loc.max_iter
    /\ o_loc' = [o_loc EXCEPT
                    !.message = "Maximum number of iterations has been exceeded."]
    /\ o_pc' = "report"
    /\ UNCHANGED <<heap, session, zcache>>
    /\ UNCHANGED <<engineVars, gpuVars, peakVars, appVars>>

\* Lines 95-114: res.message is never empty, so the success branch is always
\* taken: new_profile = current_profile.copy(), the free radii are replaced by
\* res.x, and the session's profile becomes new_profile.
O_Report ==
    /\ o_pc = "report"
    /\ LET cp == ListCopy(<<heap[1]>>, o_loc.current_profile)
           h2 == Substitute(cp.heap, cp.ref, o_loc.optim_indices, o_loc.best.x, 1)
       IN  /\ heap' = h2
           /\ session' = [session EXCEPT !.bore_profile = cp.ref]
           /\ o_loc' = [o_loc EXCEPT !.candidate = 0, !.new_profile = cp.ref]
    /\ o_pc' = "done"
    /\ UNCHANGED zcache
    /\ UNCHANGED <<engineVars, gpuVars, peakVars, appVars>>

\* The handler has ended (normally, or with Streamlit showing the exception);
\* the page is idle again.  Its locals are gone: lists only they referred to
\* are garbage, and the session's list is renumbered object 1.
O_Rerun ==
    /\ o_pc \in { "done", "raised" }
    /\ o_pc' = "idle"
    /\ o_loc' = NoLocals
    /\ heap' = <<heap[session.bore_profile]>>
    /\ session' = [session EXCEPT !.bore_profile = 1]
    /\ zcache' = << >>
    /\ UNCHANGED <<engineVars, gpuVars, peakVars, appVars>>

-----------------------------------------------------------------------------
(* PhysicsEngine.find_peaks *)

\* The distance argument of line 153, in samples.
PeakDistance == 10

\* sum(x[1..n])
RECURSIVE SumTo(_, _)
SumTo(x, n) == IF n = 0 THEN 0 ELSE x[n] + SumTo(x, n - 1)

\* The elements of a set of integers, ascending.
RECURSIVE Ascending(_)
Ascending(S) ==
    IF S = {} THEN <<>>
    ELSE LET m == CHOOSE a \in S : \A b \in S : a <= b
         IN  <<m>> \o Ascending(S \ {m})

\* scipy's local maxima of x: every run l..r of equal samples whose two outer
\* neighbours exist and are lower, reported at its middle sample (rounded
\* down).  The first and the last sample are never reported.
LocalMaxima(x) ==
    { (l + r) \div 2 :
        <<l, r>> \in { lr \in (2..(Len(x) - 1)) \X (2..(Len(x) - 1)) :
                         /\ lr[1] <= lr[2]
                         /\ \A k \in lr[1]..lr[2] : x[k] = x[lr[1]]
                         /\ x[lr[1] - 1] < x[lr[1]]
                         /\ x[lr[2] + 1] < x[lr[2]] } }

\* height = np.mean(impedance) * 0.5: scipy keeps a peak when
\* height <= x[peak], that is when x[peak] >= sum / (2 * n).
AboveHalfMean(x, k) == 2 * Len(x) * x[k] >= SumTo(x, Len(x))

SelectByHeight(x, peaks) == { k \in peaks : AboveHalfMean(x, k) }

\* Whether peak a is handled before peak b: scipy walks the peaks from the
\* highest priority (magnitude) down; among equal magnitudes (argsort, then
\* the walk from its end) the later sample comes first.
Before(x, a, b) == x[a] > x[b] \/ (x[a] = x[b] /\ a > b)

\* The peaks that survive when those of todo are still to be handled: the
\* first of todo, if still kept, discards every other kept peak closer than
\* distance samples.
RECURSIVE SelectFrom(_, _, _, _)
SelectFrom(x, keep, todo, distance) ==
    IF todo = {} THEN keep
    ELSE LET j    == CHOOSE a \in todo : \A b \in todo \ {a} : Before(x, a, b)
             rest == todo \ {j}
         IN  IF j \notin keep THEN SelectFrom(x, keep, rest, distance)
             ELSE SelectFrom(x, { k \in keep : k = j \/ Abs(k - j) >= distance },
                             rest, distance)

\* A selection that walks the peaks in index order: the first found wins.
RECURSIVE SelectFirstFound(_, _, _)
SelectFirstFound(x, peaks, distance) ==
    IF peaks = {} THEN {}
    ELSE LET j == CHOOSE a \in peaks : \A b \in peaks : a <= b
         IN  {j} \cup SelectFirstFound(x, { k \in peaks : k - j >= distance }, distance)

\* scipy's selection by distance, highest peaks first.
SelectByDistance(x, peaks, distance) == SelectFrom(x, peaks, peaks, distance)

\* The height_threshold arguments of the model: the default 1e5 is far
\* above every magnitude, 0 is below every one.
PeakThresholds == { 0, 100000 }

\* The magnitudes of the spectra handed to find_peaks.
PeakMags == { 0, 1, 4 }

\* freqs of a spectrum of n samples: an ascending grid, 1 Hz apart.
PeakFreqs(n) == Arange(100, 100 + n, 1)

PeakInputs ==
    UNION { [ freqs : { PeakFreqs(n) }, impedance : [1..n -> PeakMags],
              height_threshold : PeakThresholds ] : n \in 1..MaxPeakLen }
    \cup [ freqs : { PeakFreqs(LongPeakLen) }, impedance : [1..LongPeakLen -> {0, 1}],
           height_threshold : PeakThresholds ]

NoPeakInput == [ freqs |-> <<>>, impedance |-> <<>>, height_threshold |-> 0 ]

NoPeakResult == [ status |-> "none", freqs |-> <<>>, impedance |-> <<>> ]

\* Line 153, first stage of scipy.signal.find_peaks: the local maxima.
P_Maxima ==
    /\ p_pc = "start"
    /\ p_peaks' = LocalMaxima(p_in.impedance)
    /\ p_pc' = "height"
    /\ UNCHANGED <<p_in, p_out>>
    /\ UNCHANGED <<engineVars, gpuVars, optVars, appVars>>

\* Line 153, second stage: height = np.mean(impedance) * 0.5.  The
\* height_threshold argument of the method is not used.
P_Height ==
    /\ p_pc = "height"
    /\ p_peaks' = SelectByHeight(p_in.impedance, p_peaks)
    /\ p_pc' = "distance"
    /\ UNCHANGED <<p_in, p_out>>
    /\ UNCHANGED <<engineVars, gpuVars, optVars, appVars>>

\* Line 153, third stage: distance = 10.
P_Distance ==
    /\ p_pc = "distance"
    /\ p_peaks' = SelectByDistance(p_in.impedance, p_peaks, PeakDistance)
    /\ p_pc' = "select"
    /\ UNCHANGED <<p_in, p_out>>
    /\ UNCHANGED <<engineVars, gpuVars, optVars, appVars>>

\* Line 154: return freqs[peaks], impedance[peaks] (peaks is ascending).
P_Return ==
    /\ p_pc = "select"
    /\ LET peaks == Ascending(p_peaks)
       IN  p_out' = [ status |-> "returned",
                      freqs |-> [k \in 1..Len(peaks) |-> p_in.freqs[peaks[k]]],
                      impedance |-> [k \in 1..Len(peaks) |-> p_in.impedance[peaks[k]]] ]
    /\ p_pc' = "returned"
    /\ UNCHANGED <<p_in, p_peaks>>
    /\ UNCHANGED <<engineVars, gpuVars, optVars, appVars>>

-----------------------------------------------------------------------------
(* The pages that write st.session_state.bore_profile *)

\* bore_editor.py line 53: X (mm) is a number_input with min_value 0.0 and
\* max_value 200.0.
EditorXMin == 0
EditorXMax == 200

\* bore_editor.py line 54: Radius (mm) has min_value 1.0 and max_value 30.0
\* (tenths of a millimetre here).
EditorRMin == 10
EditorRMax == 300

\* bore_editor.py line 66: the added point is 10.0 mm after the last one.
AddPointStep == 10

\* list.sort(key=lambda p: p[0]): stable, ascending by x.
RECURSIVE InsertByX(_, _)
InsertByX(sorted, p) ==
    IF sorted = <<>> THEN <<p>>
    ELSE IF PX(Head(sorted)) <= PX(p) THEN <<Head(sorted)>> \o InsertByX(Tail(sorted), p)
    ELSE <<p>> \o sorted

RECURSIVE SortPrefix(_, _)
SortPrefix(points, k) ==
    IF k = 0 THEN <<>> ELSE InsertByX(SortPrefix(points, k - 1), points[k])

SortByX(points) == SortPrefix(points, Len(points))

\* Streamlit raises when a number_input is given a value outside its limits:
\* the editor page then shows the exception instead of the form and the
\* reset button.
InWidgetRange(points) ==
    \A j \in 1..Len(points) :
       /\ EditorXMin <= PX(points[j]) /\ PX(points[j]) <= EditorXMax
       /\ EditorRMin <= PR(points[j]) /\ PR(points[j]) <= EditorRMax

\* Values typed into the form of the editor.
EditorXs == { 0, 30 }
EditorRs == { 10, 300 }

\* bore_editor.py lines 63-66: the optional new point, after the last point
\* of the form.
WithAddedPoint(new_points, add_point) ==
    IF add_point
    THEN LET last == new_points[Len(new_points)]
         IN  Append(new_points, <<PX(last) + AddPointStep, PR(last)>>)
    ELSE new_points

\* bore_editor.render with "Update Profile" pressed: the stored list is sorted
\* in place (line 14), the form is read (one point edited, or none), the new
\* point is added if asked for, and the sorted new list is stored (69-70).
Ed_Submit ==
    /\ o_pc = "idle"
    /\ edits < MaxEdits
    /\ LET points == SortByX(heap[session.bore_profile])
       IN  /\ InWidgetRange(points)
           /\ \E i \in 1..Len(points), add_point \in BOOLEAN :
                 \E x \in EditorXs \cup { PX(points[i]) },
                    r \in EditorRs \cup { PR(points[i]) } :
                    /\ add_point => Len(points) < MaxPoints
                    /\ heap' = << SortByX(WithAddedPoint([points EXCEPT ![i] = <<x, r>>],
                                                         add_point)) >>
    /\ session' = [session EXCEPT !.bore_profile = 1]
    /\ edits' = edits + 1
    /\ UNCHANGED <<o_pc, o_loc, zcache, material>>
    /\ UNCHANGED <<engineVars, gpuVars, peakVars>>

\* bore_editor.render with "Reset to Standard 66mm" pressed (lines 75-82).
Ed_Reset ==
    /\ o_pc = "idle"
    /\ InWidgetRange(SortByX(heap[session.bore_profile]))
    /\ heap' = << DefaultProfile >>
    /\ session' = [session EXCEPT !.bore_profile = 1]
    /\ UNCHANGED <<o_pc, o_loc, zcache, edits, material>>
    /\ UNCHANGED <<engineVars, gpuVars, peakVars>>

\* material_aging.py lines 11-18 and 47: the materials offered, and the woods.
Materials == { "Grenadilla", "ABS Plastic" }
Woods == { "Grenadilla", "Cocobolo", "Boxwood" }

\* The slider positions used: "Years of Use" (0..50) and "Seasonal Humidity
\* Delta (%)" (0..50).
AgingYears == { 0, 50 }
AgingHumidities == { 0, 50 }

\* material_aging.py lines 46-49, in units of 1e-4:
\* 0.0005 * years * (1 + humidity_var / 100.0) for a wood, else 0.
ShrinkageFactor(choice, years, humidity_var) ==
    IF choice \in Woods THEN (5 * years * (100 + humidity_var)) \div 100 ELSE 0

\* a / b rounded to the nearest integer (b > 0), as a floating-point product
\* is rounded to the nearest representable value.
RoundDiv(a, b) == IF a >= 0 THEN (2 * a + b) \div (2 * b) ELSE -((2 * (-a) + b) \div (2 * b))

\* material_aging.py line 63: new_r = r * (1.0 - shrinkage_factor)
AgedRadius(r, factor) == RoundDiv(r * (10000 - factor), 10000)

\* material_aging.render with "Apply Aging to Geometry" pressed (lines 24-26
\* and 58-66): a new list with every radius shrunk is stored.
Ag_Apply ==
    /\ o_pc = "idle"
    /\ edits < MaxEdits
    /\ \E choice \in Materials, years \in AgingYears, humidity_var \in AgingHumidities :
          LET profile == heap[session.bore_profile]
              factor  == ShrinkageFactor(choice, years, humidity_var)
          IN  /\ material' = choice
              /\ heap' = << [j \in 1..Len(profile) |->
                               <<PX(profile[j]), AgedRadius(PR(profile[j]), factor)>>] >>
    /\ session' = [session EXCEPT !.bore_profile = 1]
    /\ edits' = edits + 1
    /\ UNCHANGED <<o_pc, o_loc, zcache>>
    /\ UNCHANGED <<engineVars, gpuVars, peakVars>>

\* What a whole run of the "Auto-Optimize Bore" handler may leave stored,
\* from the stored profile and the target: the profile itself when the
\* handler returns early (fewer than 3 points) or ends with the exception of
\* an empty window; else the profile with res.x at the free points, res.x
\* being the initial radii or any point the minimizer evaluated.
RunResults(profile, target) ==
    IF Len(profile) < 3 THEN { profile }
    ELSE IF ArangeLen(WindowMin(target), WindowMax(target), 1) = 0 THEN { profile }
    ELSE LET idxs == OptimIndices(Len(profile))
         IN  { Substitute(<<profile>>, 1, idxs, c, 1)[1]
               : c \in { InitialRadii(profile, idxs) } \cup Candidates(Len(idxs)) }

\* ai_designer.render with "Auto-Optimize Bore" pressed, as one step.
App_Optimize ==
    /\ o_pc = "idle"
    /\ \E new_profile \in RunResults(heap[session.bore_profile], session.target_freq) :
          heap' = << new_profile >>
    /\ session' = [session EXCEPT !.bore_profile = 1]
    /\ UNCHANGED <<o_pc, o_loc, zcache>>
    /\ UNCHANGED <<engineVars, gpuVars, peakVars, appVars>>

-----------------------------------------------------------------------------
(* Specifications *)

EngineIdle ==
    /\ e_pc = "idle" /\ e_in = NoEngineInput /\ e_freqs = <<>> /\ e_st = <<>>
    /\ e_i = 0 /\ e_out = NoResult

GpuIdle == g_pc = "idle" /\ g_in = NoGpuInput /\ g_out = NoGpuResult

PeakIdle == p_pc = "idle" /\ p_in = NoPeakInput /\ p_peaks = {} /\ p_out = NoPeakResult

\* app.py lines 10-25: the session after the first script run (it holds the
\* default profile, the material and the target frequency).
OptIdle ==
    /\ heap = <<DefaultProfile>>
    /\ session = [bore_profile |-> 1, target_freq |-> 440]
    /\ o_pc = "idle" /\ o_loc = NoLocals /\ zcache = << >>
    /\ edits = 0 /\ material = "Grenadilla"

\* One call of compute_impedance_curve per behaviour, any arguments.
InitEngine ==
    /\ e_pc = "start" /\ e_in \in EngineInputs /\ e_freqs = <<>> /\ e_st = <<>>
    /\ e_i = 0 /\ e_out = NoResult
    /\ GpuIdle /\ OptIdle /\ PeakIdle

NextEngine == E_Grid \/ E_Load \/ E_Segment \/ E_Return

SpecEngine == InitEngine /\ [][NextEngine]_vars

\* One call of gpu_accelerated_impedance per behaviour, any arguments.
InitGpu ==
    /\ g_pc = "start" /\ g_in \in GpuInputs /\ g_out = NoGpuResult
    /\ EngineIdle /\ OptIdle /\ PeakIdle

NextGpu == G_Call \/ G_Gpu \/ G_Cpu

SpecGpu == InitGpu /\ [][NextGpu]_vars

\* The optimizer page: the target is edited and the button pressed, again
\* and again.
InitOpt == EngineIdle /\ GpuIdle /\ OptIdle /\ PeakIdle

NextOpt ==
    \/ \E t \in TargetInputs : O_SetTarget(t)
    \/ O_Click
    \/ O_EvalX0
    \/ O_EvalSimplex
    \/ O_Iterate
    \/ O_Converged
    \/ O_Budget
    \/ O_Report
    \/ O_Rerun

SpecOpt == InitOpt /\ [][NextOpt]_vars

\* One call of find_peaks per behaviour, any spectrum.
InitPeaks ==
    /\ p_pc = "start" /\ p_in \in PeakInputs /\ p_peaks = {} /\ p_out = NoPeakResult
    /\ EngineIdle /\ GpuIdle /\ OptIdle

NextPeaks == P_Maxima \/ P_Height \/ P_Distance \/ P_Return

SpecPeaks == InitPeaks /\ [][NextPeaks]_vars

\* The application: the pages that write the stored profile, used in any
\* order.
InitApp == EngineIdle /\ GpuIdle /\ OptIdle /\ PeakIdle

NextApp ==
    \/ Ed_Submit
    \/ Ed_Reset
    \/ Ag_Apply
    \/ \E t \in TargetInputs : O_SetTarget(t)
    \/ App_Optimize

SpecApp == InitApp /\ [][NextApp]_vars

-----------------------------------------------------------------------------
(* Claims about compute_impedance_curve, under SpecEngine *)

\* The profiles the claims call valid: at least two points, radii > 0, x
\* strictly increasing.  compute_impedance_curve has no such check.
ValidGeometry(profile) ==
    /\ Len(profile) >= 2
    /\ \A j \in 1..Len(profile) : PR(profile[j]) > 0
    /\ \A j \in 1..(Len(profile) - 1) : PX(profile[j]) < PX(profile[j + 1])

\* The windows the claims call valid.  compute_impedance_curve has no such
\* check.
ValidRange(fmin, fmax, step) == fmin > 0 /\ fmax > 0 /\ fmin < fmax /\ step > 0

\* C1: a call with a profile that has a single point, a radius <= 0 or x
\* values that are not strictly increasing never returns a spectrum (it is
\* to fail with InvalidGeometry).  Stated for the calls whose window is
\* valid, so that a violation owes nothing to C2.
C1_InvalidGeometryNeverReturns ==
    ~( /\ e_pc = "returned"
       /\ Len(e_in.profile) >= 1
       /\ ~ValidGeometry(e_in.profile)
       /\ ValidRange(e_in.range[1], e_in.range[2], e_in.step) )

\* C2: a call with freqRange.min >= freqRange.max, a non-positive range bound
\* or freqStep <= 0 never returns a spectrum, empty or not (it is to fail with
\* InvalidRange).  Stated for the calls whose profile is valid, so that a
\* violation owes nothing to C1.
C2_InvalidRangeNeverReturns ==
    ~( /\ e_pc = "returned"
       /\ ValidGeometry(e_in.profile)
       /\ ~ValidRange(e_in.range[1], e_in.range[2], e_in.step) )

\* C3: a returned spectrum holds no non-finite magnitude (a non-finite
\* intermediate value is to abort the call with NumericInstability).  Stated
\* for the calls whose profile and window meet the preconditions, so that a
\* violation owes nothing to the missing validation of C1 and C2.
C3_ReturnedSpectrumIsFinite ==
    ( /\ e_pc = "returned"
      /\ ValidGeometry(e_in.profile)
      /\ ValidRange(e_in.range[1], e_in.range[2], e_in.step) )
    => AllFinite(e_out.Z)

\* C4: when the accelerated backend is the one in use and raises, and the
\* reference path succeeds on the same arguments (a non-zero step, a non-empty
\* profile), the failure is not surfaced to the caller.
C4_BackendFailureNotSurfaced ==
    ~( /\ e_pc = "raised"
       /\ e_out.error = "BackendError"
       /\ e_in.step # 0
       /\ Len(e_in.profile) >= 1 )

\* C11: a call with a valid profile and a valid window that returns, returns
\* a frequency array and a magnitude array of one length, and that length is
\* ceil((f_max - f_min) / freqStep).
C11_GridLength ==
    ( /\ e_pc = "returned"
      /\ ValidGeometry(e_in.profile)
      /\ ValidRange(e_in.range[1], e_in.range[2], e_in.step) )
    => /\ Len(e_out.freqs) = Len(e_out.Z)
       /\ Len(e_out.freqs) * e_in.step >= e_in.range[2] - e_in.range[1]
       /\ (Len(e_out.freqs) - 1) * e_in.step < e_in.range[2] - e_in.range[1]

\* C11's case: the window 100..103 with step 2, where the quotient 1.5 is
\* rounded up: the default profile gives two samples, 100 and 102 Hz.
C11_RoundedUp ==
    /\ e_pc = "returned"
    /\ e_in.profile = DefaultProfile
    /\ e_in.range = <<100, 103>>
    /\ e_in.step = 2
    /\ e_out.freqs = <<100, 102>>
    /\ Len(e_out.Z) = 2

\* The segments applied so far in the loop of line 112, named by their upper
\* point (1-based): segment j joins points j-1 and j.
AppliedSegments == (e_i + 1)..Len(e_in.profile)

\* What the state of frequency sample k must be once the segments of
\* AppliedSegments have been applied, each once, to (Z_L, 1): finite exactly
\* when Z_L and every applied segment at that sample's own frequency are.
ExpectedFinite(k) ==
    /\ LoadFinite(e_in.profile)
    /\ \A j \in AppliedSegments : SegmentFinite(e_in.profile, j, e_freqs[k])

\* In the loop and after it the state is the one that (Z_L, 1) and the
\* applied segments give, per frequency; a call returns only after segment
\* (0, 1), with Z_in taken from that last state.
C17_StateOfAppliedSegments ==
    /\ e_pc = "loop" =>
          /\ 1 <= e_i /\ e_i <= Len(e_in.profile)
          /\ Len(e_st) = Len(e_freqs)
          /\ \A k \in 1..Len(e_st) :
                /\ (e_st[k].P /\ e_st[k].U) = ExpectedFinite(k)
                /\ e_i = Len(e_in.profile) =>
                      (e_st[k].U /\ e_st[k].P = LoadFinite(e_in.profile))
    /\ e_pc = "returned" =>
          /\ e_i = 1
          /\ Cardinality(AppliedSegments) = Len(e_in.profile) - 1
          /\ Len(e_out.Z) = Len(e_freqs)
          /\ \A k \in 1..Len(e_out.Z) : e_out.Z[k].fin = ExpectedFinite(k)

\* The loop variable starts at the last point and only ever moves down by
\* one, and each move applies the transfer of that one segment to the state
\* the previous move left.
C17_OneSegmentPerStepDescending ==
    /\ (e_pc = "geometry" /\ e_pc' = "loop") =>
          (e_i' = Len(e_in.profile) /\ e_st' = LoadState(e_in.profile, e_freqs))
    /\ (e_pc = "loop" /\ e_pc' = "loop") =>
          /\ e_i > 1
          /\ e_i' = e_i - 1
          /\ \A k \in 1..Len(e_st) :
                (e_st'[k].P /\ e_st'[k].U) =
                   (e_st[k].P /\ e_st[k].U /\ SegmentFinite(e_in.profile, e_i, e_freqs[k]))
    /\ (e_pc = "loop" /\ e_pc' = "returned") => (e_i <= 1 /\ UNCHANGED <<e_i, e_st>>)

\* C17: a call starts from (Pressure = Z_L, VolumeFlow = 1) at the last point
\* and applies the transfer of the n-1 segments, each once, in descending
\* order from (n-2, n-1) to (0, 1), each on the state the previous one left;
\* Z_in comes from the state after segment (0, 1), and each frequency's result
\* depends on that frequency's own state only.
C17_SegmentsOnceInDescendingOrder ==
    [] C17_StateOfAppliedSegments /\ [][C17_OneSegmentPerStepDescending]_vars

\* C17's case: the default profile (4 points) has had its 3 segments applied
\* and the call has returned a finite spectrum over 100..103 Hz.
C17_AllSegmentsApplied ==
    /\ e_pc = "returned"
    /\ e_in.profile = DefaultProfile
    /\ e_in.range = <<100, 104>>
    /\ e_in.step = 1
    /\ AppliedSegments = {2, 3, 4}
    /\ AllFinite(e_out.Z)

-----------------------------------------------------------------------------
(* Claims about find_peaks, under SpecPeaks *)

\* Sample k is above both of its immediate neighbours.
StrictLocalMaximum(x, k) ==
    /\ 1 < k /\ k < Len(x)
    /\ x[k - 1] < x[k]
    /\ x[k + 1] < x[k]

\* C12: the returned peaks are in ascending frequency order, each is a
\* strict local maximum versus both immediate neighbours and strictly exceeds
\* mean(magnitude) * 0.5, and any two of them are at least the separation
\* apart.
C12_PeaksMeetAllCriteria ==
    p_pc = "returned" =>
       /\ \A k \in p_peaks :
             /\ StrictLocalMaximum(p_in.impedance, k)
             /\ 2 * Len(p_in.impedance) * p_in.impedance[k]
                   > SumTo(p_in.impedance, Len(p_in.impedance))
       /\ \A j, k \in p_peaks : j # k => Abs(j - k) >= PeakDistance
       /\ \A j \in 1..(Len(p_out.freqs) - 1) : p_out.freqs[j] < p_out.freqs[j + 1]

\* The samples that are candidates for the selection by distance.
PeakCandidates == SelectByHeight(p_in.impedance, LocalMaxima(p_in.impedance))

\* C13: a candidate that was discarded has, within the separation window, a
\* kept peak that is at least as tall; so among candidates that share a
\* window a lower earlier one never displaces a taller later one.
C13_TallestInWindowKept ==
    p_pc = "returned" =>
       /\ p_peaks \subseteq PeakCandidates
       /\ \A c \in PeakCandidates \ p_peaks :
             \E k \in p_peaks :
                /\ Abs(k - c) < PeakDistance
                /\ p_in.impedance[k] >= p_in.impedance[c]

\* C13's case: two candidates in one window, the later one taller; the later
\* one is returned and the earlier one is not.
C13_LaterTallerKept ==
    /\ p_pc = "returned"
    /\ \E c, k \in PeakCandidates :
          /\ c < k /\ k - c < PeakDistance
          /\ p_in.impedance[c] < p_in.impedance[k]
          /\ k \in p_peaks
          /\ c \notin p_peaks

\* C14: a call whose height threshold is above every magnitude of the
\* spectrum returns no peak.
C14_ThresholdAboveAllGivesNone ==
    ( /\ p_pc = "returned"
      /\ \A k \in 1..Len(p_in.impedance) : p_in.impedance[k] < p_in.height_threshold )
    => p_out.freqs = <<>>

-----------------------------------------------------------------------------
(* Claims about gpu_accelerated_impedance, under SpecGpu *)

\* The sum over i of lengths[i] * radii[i].
RECURSIVE DotProduct(_, _, _)
DotProduct(a, b, i) == IF i > Len(a) THEN 0 ELSE a[i] * b[i] + DotProduct(a, b, i + 1)

\* C5: on every path (GPU absent, GPU succeeding, GPU raising at any point)
\* the function returns the sum of lengths[i]*radii[i] of its arguments; it
\* never returns None and never lets the GPU's exception reach its caller.
C5_SameSumOnEveryPath ==
    /\ g_pc # "raised"
    /\ g_out.status # "raised"
    /\ g_pc = "returned" =>
          /\ g_out.status = "returned"
          /\ ~g_out.is_none
          /\ g_out.value = DotProduct(g_in.lengths, g_in.radii, 1)

\* C5's case: the GPU was present, raised inside the try block, and the
\* caller got the CPU result for a two-element input.
C5_FallbackReturned ==
    /\ g_pc = "returned"
    /\ g_in.has_gpu
    /\ g_in.fault = "sum"
    /\ g_out.path = "cpu_fallback"
    /\ g_in.lengths = <<2, 1>>
    /\ g_in.radii = <<2, 2>>
    /\ g_out.value = 6

-----------------------------------------------------------------------------
(* Claims about the optimizer handler, under SpecOpt *)

\* Same number of points, same x everywhere, same radius at both ends.
SameFrame(a, b) ==
    /\ Len(a) = Len(b)
    /\ \A j \in 1..Len(a) : PX(a[j]) = PX(b[j])
    /\ PR(a[1]) = PR(b[1])
    /\ PR(a[Len(a)]) = PR(b[Len(a)])

\* C6: every candidate profile built by the objective, and the profile
\* stored at the end of the run, has the input's number of points, the
\* input's x at every point and the input's radius at both end points.
C6_FixedPointsAndPositionsKept ==
    /\ (o_pc # "idle" /\ o_loc.candidate # 0) =>
          SameFrame(o_loc.input, heap[o_loc.candidate])
    /\ o_pc = "done" => SameFrame(o_loc.input, heap[session.bore_profile])

\* C6's case: a run ended and the stored profile differs from the input at a
\* free point.
C6_FreeRadiusChanged ==
    /\ o_pc = "done"
    /\ PR(heap[session.bore_profile][2]) # PR(o_loc.input[2])

\* C7: from the click to the end of the run the input list object holds what
\* it held at the click; candidates and the result are other objects.
C7_InputProfileNotMutated ==
    /\ o_pc # "idle" => heap[o_loc.current_profile] = o_loc.input
    /\ (o_pc # "idle" /\ o_loc.candidate # 0) => o_loc.candidate # o_loc.current_profile
    /\ o_pc = "done" =>
          /\ o_loc.new_profile # o_loc.current_profile
          /\ session.bore_profile = o_loc.new_profile

\* C7's case: a run ended with a result that differs from the input, which
\* is still on the heap as it was.
C7_ResultDiffersFromInput ==
    /\ o_pc = "done"
    /\ heap[session.bore_profile] # o_loc.input
    /\ heap[o_loc.current_profile] = o_loc.input

\* C8: every run ends with one of the two outcomes reported, never with an
\* exception.
C8_RunEndsWithReportedOutcome ==
    /\ o_pc # "raised"
    /\ o_pc = "done" =>
          o_loc.message \in { "Optimization terminated successfully.",
                              "Maximum number of iterations has been exceeded." }

\* The last objective evaluation had no interior maximum to find: the window
\* grid was empty, or the largest magnitude was at its first or last sample.
NoInteriorMaximum ==
    LET n == ArangeLen(WindowMin(o_loc.target_f), WindowMax(o_loc.target_f), 1)
    IN  n = 0 \/ o_loc.last.peak_idx \in { 1, n }

\* C9: an objective evaluation whose window has no interior maximum returns
\* the sentinel error; it neither uses the edge sample nor fails.
C9_NoInteriorMaximumGivesSentinel ==
    (o_pc # "idle" /\ o_loc.last.kind # "none" /\ NoInteriorMaximum)
       => o_loc.last.kind = "sentinel"

\* The squared error of a candidate fundamental.
ErrorOf(f_peak) == (f_peak - o_loc.target_f) * (f_peak - o_loc.target_f)

-----------------------------------------------------------------------------
(* Claims about the stored profile, under SpecApp *)

\* The stored profile.
StoredProfile == heap[session.bore_profile]

\* The step-by-step run of SpecOpt ends with one of the profiles the
\* one-step view of the handler allows, and an exception leaves the stored
\* profile as it was.
RunStaysWithinRunResults ==
    /\ o_pc = "done" => StoredProfile \in RunResults(o_loc.input, o_loc.target_f)
    /\ o_pc = "raised" => StoredProfile = o_loc.input

\* C15: every control point of the stored profile has a radius > 0.
C15_StoredRadiiPositive ==
    \A j \in 1..Len(StoredProfile) : PR(StoredProfile[j]) > 0

\* C16: the stored profile has at least 2 control points and its x values
\* are strictly increasing.
C16_StoredProfileWellFormed ==
    /\ Len(StoredProfile) >= 2
    /\ \A j \in 1..(Len(StoredProfile) - 1) :
          PX(StoredProfile[j]) < PX(StoredProfile[j + 1])

====
